---- MODULE Spec2Model ----
(***************************************************************************)
(* Model of software/firmware/pru0-shepherd-fw/virtcap.c: the virtual      *)
(* capacitor of the shepherd PRU firmware (integer fixed point).           *)
(*                                                                         *)
(* A 32-bit word is held as the integer in -2^31 .. 2^31-1 that has the    *)
(* same bit pattern (two's complement), for uint32_t and int32_t alike:    *)
(* the unsigned value of a negative representative w is w + 2^32.          *)
(* Unsigned order, division and shifts are the operators U*, wrapping      *)
(* addition and multiplication are shared by both signednesses.            *)
(***************************************************************************)
EXTENDS Integers, Sequences, FiniteSets, TLC

\* INT32_MAX; INT32_MIN is -MaxInt - 1
MaxInt == 2147483647
MinInt == -MaxInt - 1

TwoP16 == 65536

\* a + b modulo 2^32
Add32(a, b) ==
  IF a >= 0 /\ b >= 0
    THEN IF a <= MaxInt - b THEN a + b
                            ELSE ((a - MaxInt) - 1) + ((b - MaxInt) - 1)
    ELSE IF a < 0 /\ b < 0
      THEN IF a >= MinInt - b THEN a + b
                              ELSE ((a + MaxInt) + 1) + ((b + MaxInt) + 1)
      ELSE a + b

\* -a modulo 2^32
Neg32(a) == IF a = MinInt THEN MinInt ELSE -a

\* a - b modulo 2^32
Sub32(a, b) == Add32(a, Neg32(b))

\* the low and the high 16 bits of a word, each in 0 .. 65535
Lo16(a) == a % TwoP16
Hi16(a) == ((a - Lo16(a)) \div TwoP16) % TwoP16

\* the word with high half h and low half l
Word(h, l) == IF h < 32768 THEN h * TwoP16 + l ELSE (h - TwoP16) * TwoP16 + l

\* the low 16 bits of x * y, for x, y in 0 .. 65535
MulLo16(x, y) == ((x % 256) * y + (((x \div 256) * y) % 256) * 256) % TwoP16

\* a * b modulo 2^32
Mul32(a, b) ==
  LET al == Lo16(a)
      ah == Hi16(a)
      bl == Lo16(b)
      bh == Hi16(b)
      p1 == (al \div 256) * bl
      p0 == (al % 256) * bl
      t  == (p1 % 256) * 256 + p0
      lo == t % TwoP16
      hi == (p1 \div 256) + (t \div TwoP16)
  IN  Word((hi + MulLo16(ah, bl) + MulLo16(al, bh)) % TwoP16, lo)

\* 2^k for k in 0 .. 30
RECURSIVE Pow2(_)
Pow2(k) == IF k = 0 THEN 1 ELSE 2 * Pow2(k - 1)

\* a << k modulo 2^32, 0 <= k <= 30
Shl32(a, k) == Mul32(a, Pow2(k))

\* unsigned (logical) a >> k, 1 <= k <= 31
UShr32(a, k) ==
  IF a >= 0 THEN a \div Pow2(k)
  ELSE IF k = 1 THEN ((a \div 2) + MaxInt) + 1
  ELSE (a \div Pow2(k)) + Pow2(32 - k)

\* unsigned comparisons
ULt(a, b) == IF (a >= 0) = (b >= 0) THEN a < b ELSE a >= 0
ULe(a, b) == a = b \/ ULt(a, b)

\* unsigned a / b, b # 0
UDiv32(a, b) ==
  IF b < 0 THEN (IF ULe(b, a) THEN 1 ELSE 0)
  ELSE IF a >= 0 THEN a \div b
  ELSE IF b = 1 THEN a
  ELSE LET h   == ((a \div 2) + MaxInt) + 1
           bit == a % 2
           q0  == h \div b
           r0  == h % b
       IN  2 * q0 + (IF r0 >= (b - r0) - bit THEN 1 ELSE 0)

\* signed a / b truncating toward zero, for a divisor b > 0
SDivPos(a, b) ==
  LET q == a \div b
  IN  IF a < 0 /\ a % b # 0 THEN q + 1 ELSE q

\* signed a / b truncating toward zero, b # 0 (INT32_MIN / -1 wraps)
SDiv32(a, b) ==
  IF b > 0 THEN SDivPos(a, b)
  ELSE IF b = MinInt THEN (IF a = MinInt THEN 1 ELSE 0)
  ELSE Neg32(SDivPos(a, -b))

----------------------------------------------------------------------------
(* SquareRootRounded *)

\* the initial scan: lowers one to the highest power of four <= op
RECURSIVE ScanOne(_, _, _)
ScanOne(op, one, n) ==
  IF ULt(op, one) THEN ScanOne(op, UShr32(one, 2), n + 1)
  ELSE [one |-> one, scans |-> n]

\* the test of the main loop's body
SqrtTakes(op, res, one) == ULe(Add32(res, one), op)

\* the main loop
RECURSIVE SqrtLoop(_, _, _, _)
SqrtLoop(op, res, one, n) ==
  IF one # 0
    THEN IF SqrtTakes(op, res, one)
           THEN SqrtLoop(Sub32(op, Add32(res, one)),
                         UShr32(Add32(res, Mul32(2, one)), 1),
                         UShr32(one, 2), n + 1)
           ELSE SqrtLoop(op, UShr32(res, 1), UShr32(one, 2), n + 1)
    ELSE [op |-> op, res |-> res, iters |-> n]

\* mutants of the rounding: rounding up on equality, and the comparison reversed
SqrtRoundOnEqual(op, res) == IF ULe(res, op) THEN Add32(res, 1) ELSE res
SqrtRoundReversed(op, res) == IF ULt(op, res) THEN Add32(res, 1) ELSE res

\* the arithmetic rounding after the loop
SqrtRound(op, res) == IF ULt(res, op) THEN Add32(res, 1) ELSE res

\* the whole run: the result with the number of steps of the two loops
SqrtRun(a_nInput) ==
  LET s == ScanOne(a_nInput, Pow2(30), 0)
      l == SqrtLoop(a_nInput, 0, s.one, 0)
  IN  [res |-> SqrtRound(l.op, l.res), scans |-> s.scans, iters |-> l.iters]

SquareRootRounded(a_nInput) == SqrtRun(a_nInput).res

----------------------------------------------------------------------------
(* Unit conversions *)

SHIFT_VOLT == 13

voltage_mv_to_logic(voltage) == Shl32(Mul32(voltage, 32), SHIFT_VOLT)

\* mutant of line 199: a factor under 1
current_ua_to_logic_flat(current) == UDiv32(Mul32(current, 3216), 10000)

current_ua_to_logic(current) == UDiv32(Mul32(current, 3216), 1000)

----------------------------------------------------------------------------
(* Settings given to virtcap_init: millivolts, microamperes, microfarads, *)
(* microseconds.  capacitance_uF is never 0 in these (virtcap_init        *)
(* divides by it).                                                        *)

Base ==
  [upper_threshold_voltage |-> 3500, lower_threshold_voltage |-> 3310,
   kMaxCapVoltage |-> 3505, kMinCapVoltage |-> 3300, kInitCapVoltage |-> 3495,
   kDcoutputVoltage |-> 2300, kLeakageCurrent |-> 9,
   kOnTimeLeakageCurrent |-> 12, capacitance_uF |-> 10, kOutputCap_uF |-> 1,
   kConverterEfficiency |-> 8192, sample_period_us |-> 10, kDiscretize |-> 1]

\* a debounce window of several calls
SettingsDebounce == [Base EXCEPT !.kDiscretize = 3]

\* a lower clamp bound close under the lower threshold
SettingsHighMin ==
  [Base EXCEPT !.lower_threshold_voltage = 3400, !.kMinCapVoltage = 3350]

\* kDiscretize = 0
SettingsNoDiscretize == [Base EXCEPT !.kDiscretize = 0]

\* the capacitances and kDiscretize of end-to-end scenario A
SettingsA ==
  [Base EXCEPT !.capacitance_uF = 10000, !.kOutputCap_uF = 1000,
               !.lower_threshold_voltage = 3200, !.kMaxCapVoltage = 4200,
               !.kMinCapVoltage = 500, !.kInitCapVoltage = 3500]

\* an empty capacitor: kInitCapVoltage = kMinCapVoltage = 0
SettingsEmpty == [Base EXCEPT !.kInitCapVoltage = 0, !.kMinCapVoltage = 0]

\* the lower clamp bound on the lower threshold
SettingsEdge == [Base EXCEPT !.kMinCapVoltage = 3310]

\* capacitances whose difference times 2^20 is between 2^31 and 2^32, and a
\* capacitor that starts on the upper threshold
SettingsMid ==
  [Base EXCEPT !.capacitance_uF = 3000, !.kOutputCap_uF = 500,
               !.kInitCapVoltage = 3500]

\* a narrow band: lower clamp bound, lower and upper threshold 1 mV apart
SettingsTight ==
  [Base EXCEPT !.lower_threshold_voltage = 3499, !.kMinCapVoltage = 3498,
               !.kInitCapVoltage = 3498]

\* capacitances whose difference times 2^20 is 2^32, and a capacitor that
\* starts on the upper threshold
SettingsWrap ==
  [Base EXCEPT !.capacitance_uF = 5000, !.kOutputCap_uF = 904,
               !.kInitCapVoltage = 3500]

SettingsArgs ==
  {Base, SettingsDebounce, SettingsHighMin, SettingsNoDiscretize, SettingsA,
   SettingsEmpty, SettingsEdge, SettingsMid, SettingsTight, SettingsWrap}

\* the arguments of virtcap_update:
\* <<current_measured, voltage_measured, input_power, efficiency>>
InCharge    == <<0, 0, 20000, 8192>>
InDischarge == <<20000, 102400, 0, 8192>>
InHeavyLoad == <<30000, 102400, 0, 8192>>

UpdateArgs == {InCharge, InDischarge, InHeavyLoad}

\* what a division by zero may leave as its quotient where it does not trap
DivZeroQuot == {0, -1}

\* bounds of the model
MaxCalls == 5
MaxInits == 2
MaxCallsA == 120
MaxSqrtIn == 300
MaxConvIn == 12
MaxStepIn == 20

----------------------------------------------------------------------------
VARIABLES
  settings,                \* VirtCapNoFpSettings settings (converted in place)
  callback,                \* "NULL", or "set" once virtcap_init stored it
  kScaleInput,
  outputcap_scale_factor,
  cap_voltage,
  is_outputting,
  is_enabled,
  discretize_cntr,
  signed_fields,           \* the build: TRUE when VirtCapNoFpSettings (virtcap.h)
                           \* declares capacitance_uF and sample_period_us with a
                           \* signed type (or one promoted to int), FALSE: uint32_t
  halted,                  \* the process trapped on a division by zero
  obs,                     \* what the last call did
  hist,                    \* counts since the last virtcap_init
  sq,                      \* the last call of SquareRootRounded
  conv,                    \* the last two calls of a unit conversion
  step                     \* SquareRootRounded step by step: its locals

prog == <<settings, callback, kScaleInput, outputcap_scale_factor, cap_voltage,
          is_outputting, is_enabled, discretize_cntr>>
vars == <<prog, signed_fields, halted, obs, hist, sq, conv, step>>

ZeroSettings == [f \in DOMAIN Base |-> 0]

NoObs ==
  [op |-> "none", arg |-> ZeroSettings, in |-> <<0, 0, 0, 0>>,
   pre_cap |-> 0, pre_out |-> FALSE, pre_cntr |-> 0, pre_since |-> 0,
   input_current |-> 0, output_current |-> 0, raw |-> 0, v |-> 0, cb |-> <<>>,
   quiet |-> {}]

NoHist ==
  [ncalls |-> 0, ninits |-> 0, cbTrue |-> 0, cbFalse |-> 0, sinceChange |-> 0,
   lastArg |-> "none"]

NoSq == [done |-> FALSE, n |-> 0, r |-> 0, scans |-> 0, iters |-> 0]

NoStep ==
  [pc |-> "idle", n |-> 0, op |-> 0, res |-> 0, one |-> 0, scans |-> 0,
   iters |-> 0]

NoConv == [f |-> "none", a |-> 0, b |-> 0, fa |-> 0, fb |-> 0]

\* the globals before virtcap_init: zero-initialised
Init ==
  /\ settings = ZeroSettings
  /\ callback = "NULL"
  /\ kScaleInput = 0
  /\ outputcap_scale_factor = 0
  /\ cap_voltage = 0
  /\ is_outputting = FALSE
  /\ is_enabled = FALSE
  /\ discretize_cntr = 0
  /\ signed_fields \in BOOLEAN
  /\ halted = FALSE
  /\ obs = NoObs
  /\ hist = NoHist
  /\ sq = NoSq
  /\ conv = NoConv
  /\ step = NoStep

----------------------------------------------------------------------------
(* virtcap_init *)

\* lines 83-90: the conversions in place
ConvertSettings(a) ==
  [a EXCEPT
     !.upper_threshold_voltage = voltage_mv_to_logic(a.upper_threshold_voltage),
     !.lower_threshold_voltage = voltage_mv_to_logic(a.lower_threshold_voltage),
     !.kMaxCapVoltage = voltage_mv_to_logic(a.kMaxCapVoltage),
     !.kMinCapVoltage = voltage_mv_to_logic(a.kMinCapVoltage),
     !.kInitCapVoltage = voltage_mv_to_logic(a.kInitCapVoltage),
     !.kDcoutputVoltage = voltage_mv_to_logic(a.kDcoutputVoltage),
     !.kLeakageCurrent = current_ua_to_logic(a.kLeakageCurrent),
     !.kOnTimeLeakageCurrent = current_ua_to_logic(a.kOnTimeLeakageCurrent)]

\* a / b in the type of the settings fields
FieldDiv(a, b) == IF signed_fields THEN SDiv32(a, b) ELSE UDiv32(a, b)

\* line 92
OutputcapScaleFactorPreSqrt(s) ==
  FieldDiv(Mul32(Mul32(Sub32(s.capacitance_uF, s.kOutputCap_uF), 1024), 1024),
           s.capacitance_uF)

\* line 107
ScaleInputLiteral == 102911

\* mutant: is_outputting and discretize_cntr are not initialised again
InitWorkingVarsKept(s) ==
  [cap_voltage |-> s.kInitCapVoltage, is_outputting |-> is_outputting,
   is_enabled |-> FALSE, discretize_cntr |-> discretize_cntr]

\* lines 96-100
InitWorkingVars(s) ==
  [cap_voltage |-> s.kInitCapVoltage, is_outputting |-> FALSE,
   is_enabled |-> FALSE, discretize_cntr |-> 0]

virtcap_init(settings_arg) ==
  \E s \in {ConvertSettings(settings_arg)} :
  \E w \in {InitWorkingVars(s)},
     outputcap_scale_factor_pre_sqrt \in {OutputcapScaleFactorPreSqrt(s)} :
      /\ ~halted
      /\ settings' = s
      /\ callback' = "set"
      /\ outputcap_scale_factor' =
           SquareRootRounded(outputcap_scale_factor_pre_sqrt)
      /\ cap_voltage' = w.cap_voltage
      /\ is_outputting' = w.is_outputting
      /\ is_enabled' = w.is_enabled
      /\ discretize_cntr' = w.discretize_cntr
      /\ kScaleInput' = ScaleInputLiteral
      /\ obs' = [NoObs EXCEPT !.op = "init", !.arg = settings_arg,
                              !.pre_out = is_outputting]
      /\ hist' = [NoHist EXCEPT !.ncalls = hist.ncalls,
                                !.ninits = hist.ninits + 1]
      /\ UNCHANGED <<signed_fields, halted, sq, conv, step>>

----------------------------------------------------------------------------
(* virtcap_update *)

\* line 116, with q the quotient of the division
InputCurrent(q, efficiency) ==
  Sub32(UShr32(Mul32(q, efficiency), SHIFT_VOLT), settings.kLeakageCurrent)

\* mutant of lines 121-124: current_measured used in the Off state too
LoadCurrentAlways(current_measured) == current_measured

\* lines 121-124
LoadCurrent(current_measured) == IF ~is_outputting THEN 0 ELSE current_measured

\* line 126, with q the quotient of the division
OutputCurrent(q) ==
  UShr32(Mul32(q, settings.kConverterEfficiency), SHIFT_VOLT)

\* line 128
NewCapVoltage(input_current, output_current) ==
  Add32(cap_voltage,
        FieldDiv(Mul32(Shl32(Sub32(input_current, output_current), SHIFT_VOLT),
                       settings.sample_period_us),
                 Mul32(100, settings.capacitance_uF)))

\* lines 156-163
Clamp(new_cap_voltage) ==
  IF ULe(settings.kMaxCapVoltage, new_cap_voltage) THEN settings.kMaxCapVoltage
  ELSE IF ULt(new_cap_voltage, settings.kMinCapVoltage)
    THEN settings.kMinCapVoltage
    ELSE new_cap_voltage

\* mutants of line 167: the decision taken in every call, and > for >=
WrapsAlways(cntr) == TRUE
WrapsLate(cntr) == ULt(settings.kDiscretize, cntr)

\* line 167
Wraps(cntr) == ULe(settings.kDiscretize, cntr)

\* mutant of line 172: the test of is_outputting left out
FallsUnderAnyState(v) == ULt(v, settings.lower_threshold_voltage)

\* mutant of line 172: <= for <
FallsUnderOrEqual(v) ==
  is_outputting /\ ULe(v, settings.lower_threshold_voltage)

\* line 172
FallsUnder(v) == is_outputting /\ ULt(v, settings.lower_threshold_voltage)

\* mutant of line 177: the test of is_outputting left out
RisesOverAnyState(v) == ULt(settings.upper_threshold_voltage, v)

\* line 177
RisesOver(v) == ~is_outputting /\ ULt(settings.upper_threshold_voltage, v)

\* line 181
Redistribute(v) == Mul32(UShr32(v, 10), outputcap_scale_factor)

\* mutant: the callback called before is_outputting is assigned
CallbackCallEarly(arg, out, cntr) ==
  [arg |-> arg, is_outputting |-> is_outputting, discretize_cntr |-> cntr,
   cap_voltage |-> cap_voltage]

\* the callback, called with arg: what it can see of the globals
CallbackCall(arg, out, cntr) ==
  [arg |-> arg, is_outputting |-> out, discretize_cntr |-> cntr,
   cap_voltage |-> cap_voltage]

\* lines 166-186: the new working variables and the callback's calls,
\* v the clamped new_cap_voltage
Hysteresis(v) ==
  LET cntr == Add32(discretize_cntr, 1)
  IN  IF Wraps(cntr)
        THEN IF FallsUnder(v)
               THEN [cntr |-> 0, out |-> FALSE, cap |-> v,
                     cb |-> <<CallbackCall(FALSE, FALSE, 0)>>]
             ELSE IF RisesOver(v)
               THEN [cntr |-> 0, out |-> TRUE, cap |-> Redistribute(v),
                     cb |-> <<CallbackCall(TRUE, TRUE, 0)>>]
               ELSE [cntr |-> 0, out |-> is_outputting, cap |-> v, cb |-> <<>>]
        ELSE [cntr |-> cntr, out |-> is_outputting, cap |-> v, cb |-> <<>>]

CountCalls(h, cb, changed) ==
  [h EXCEPT
     !.ncalls = @ + 1,
     !.cbTrue = @ + Cardinality({i \in DOMAIN cb : cb[i].arg}),
     !.cbFalse = @ + Cardinality({i \in DOMAIN cb : ~cb[i].arg}),
     !.sinceChange = IF changed THEN 0 ELSE @ + 1,
     !.lastArg = IF cb = <<>> THEN @
                 ELSE IF cb[Len(cb)].arg THEN "true" ELSE "false"]

\* cap_voltage >> SHIFT_VOLT, the divisor of lines 116 and 126
Divisor == UShr32(cap_voltage, SHIFT_VOLT)

\* lines 116-186 as a function of the state: what virtcap_update(in) leaves
\* in the working variables and how it calls the callback, q1 and q2 the
\* quotients of lines 116, 126
UpdateResult(in, q1, q2) ==
  Hysteresis(Clamp(NewCapVoltage(InputCurrent(q1, in[4]), OutputCurrent(q2))))

\* all the results virtcap_update(in) can have in this state
Outcomes(in) ==
  IF Divisor # 0
    THEN {UpdateResult(in, UDiv32(Mul32(in[3], kScaleInput), Divisor),
                       UDiv32(Mul32(in[2], LoadCurrent(in[1])), Divisor))}
    ELSE {UpdateResult(in, q1, q2) : q1 \in DivZeroQuot, q2 \in DivZeroQuot}

\* the body of virtcap_update; q1 and q2 are the quotients of lines 116, 126
UpdateWith(in, q1, q2) ==
  \E input_current \in {InputCurrent(q1, in[4])},
     output_current \in {OutputCurrent(q2)} :
  \E raw \in {NewCapVoltage(input_current, output_current)} :
  \E v \in {Clamp(raw)} :
  \E h \in {Hysteresis(v)} :
      /\ cap_voltage' = h.cap
      /\ is_outputting' = h.out
      /\ discretize_cntr' = h.cntr
      /\ obs' = [op |-> "update", arg |-> obs.arg, in |-> in,
                 pre_cap |-> cap_voltage, pre_out |-> is_outputting,
                 pre_cntr |-> discretize_cntr,
                 pre_since |-> hist.sinceChange,
                 input_current |-> input_current,
                 output_current |-> output_current, raw |-> raw, v |-> v,
                 cb |-> h.cb,
                 quiet |-> Outcomes(<<0, 0, in[3], in[4]>>)]
      /\ hist' = CountCalls(hist, h.cb, h.out # is_outputting)
      /\ UNCHANGED <<settings, callback, kScaleInput, outputcap_scale_factor,
                     is_enabled, signed_fields, halted, sq, conv, step>>

virtcap_update(in) ==
  /\ callback = "set"
  /\ ~halted
  /\ \/ /\ Divisor # 0
        /\ UpdateWith(in, UDiv32(Mul32(in[3], kScaleInput), Divisor),
                      UDiv32(Mul32(in[2], LoadCurrent(in[1])), Divisor))
     \/ /\ Divisor = 0
        /\ \E q1 \in DivZeroQuot, q2 \in DivZeroQuot : UpdateWith(in, q1, q2)
     \/ /\ Divisor = 0
        /\ halted' = TRUE
        /\ obs' = [NoObs EXCEPT !.op = "trap", !.arg = obs.arg, !.in = in]
        /\ UNCHANGED <<prog, signed_fields, hist, sq, conv, step>>

----------------------------------------------------------------------------
(* The firmware: virtcap_init, then virtcap_update once per sample; a     *)
(* later virtcap_init initialises again.                                  *)

Next ==
  \/ \E a \in SettingsArgs : hist.ninits < MaxInits /\ virtcap_init(a)
  \/ \E in \in UpdateArgs : hist.ncalls < MaxCalls /\ virtcap_update(in)

Spec == Init /\ [][Next]_vars

\* end-to-end scenario A: its settings, the same high input power and
\* current_measured = 0 in every update
NextA ==
  \/ callback = "NULL" /\ virtcap_init(SettingsA)
  \/ hist.ncalls < MaxCallsA /\ virtcap_update(InCharge)

SpecA == Init /\ [][NextA]_vars

\* SquareRootRounded on its own:
\* 0 .. MaxSqrtIn, and large inputs: k*k - k, k*k - k + 1, k*k, k*k + k and
\* k*k + k + 1 (where the rounding turns) for k = 1000, 46340, 46341, 65535,
\* the neighbours of 2^31, 2^32 - 2, 2^32 - 1, and the values of line 92
SqrtInputs ==
  (0 .. MaxSqrtIn) \cup
  {65535, 65536, 84724, 943718, 999000, 999001, 1000000, 1001000, 1001001,
   1048576, 2147349260, 2147349261, 2147395600, 2147441940, 2147441941,
   MaxInt, MinInt, -2147483647, -2147479015, -2147432674, -2147432673,
   -196606, -196605, -131071, -65536, -65535, -2, -1}

SqrtCall(n) ==
  \E run \in {SqrtRun(n)} :
      /\ ~sq.done
      /\ sq' = [done |-> TRUE, n |-> n, r |-> run.res, scans |-> run.scans,
                iters |-> run.iters]
      /\ UNCHANGED <<prog, signed_fields, halted, obs, hist, conv, step>>

NextSqrt == \E n \in SqrtInputs : SqrtCall(n)

SpecSqrt == Init /\ [][NextSqrt]_vars

\* SquareRootRounded step by step: one action per pass of a loop
others == <<prog, signed_fields, halted, obs, hist, sq, conv>>

\* mutant of lines 52 and 63: one >>= 1
NextOneHalved(one) == UShr32(one, 1)

\* lines 52 and 63
NextOne(one) == UShr32(one, 2)

\* lines 44-46
SqrtEnter(a_nInput) ==
  /\ step.pc = "idle"
  /\ step' = [pc |-> "scan", n |-> a_nInput, op |-> a_nInput, res |-> 0,
             one |-> Pow2(30), scans |-> 0, iters |-> 0]
  /\ UNCHANGED others

\* lines 50-53, one pass
SqrtScanStep ==
  /\ step.pc = "scan" /\ ULt(step.op, step.one)
  /\ step' = [step EXCEPT !.one = NextOne(@), !.scans = @ + 1]
  /\ UNCHANGED others

\* line 50, the test fails
SqrtScanExit ==
  /\ step.pc = "scan" /\ ~ULt(step.op, step.one)
  /\ step' = [step EXCEPT !.pc = "loop"]
  /\ UNCHANGED others

\* lines 55-64, one pass
SqrtLoopStep ==
  /\ step.pc = "loop" /\ step.one # 0
  /\ step' = IF SqrtTakes(step.op, step.res, step.one)
              THEN [step EXCEPT
                      !.op = Sub32(@, Add32(step.res, step.one)),
                      !.res = UShr32(Add32(@, Mul32(2, step.one)), 1),
                      !.one = NextOne(@), !.iters = @ + 1]
              ELSE [step EXCEPT !.res = UShr32(@, 1), !.one = NextOne(@),
                               !.iters = @ + 1]
  /\ UNCHANGED others

\* line 55, the test fails; lines 67-72
SqrtReturn ==
  /\ step.pc = "loop" /\ step.one = 0
  /\ step' = [step EXCEPT !.pc = "done", !.res = SqrtRound(step.op, step.res)]
  /\ UNCHANGED others

SqrtStep == SqrtScanStep \/ SqrtScanExit \/ SqrtLoopStep \/ SqrtReturn

\* the arguments of the stepwise runs
StepInputs ==
  (0 .. MaxStepIn) \cup
  {63, 64, 65535, 65536, 84724, 943718, 1048576, 1073741823, 1073741824,
   MaxInt, MinInt, -65536, -2, -1}

NextSteps ==
  \/ \E n \in StepInputs : SqrtEnter(n)
  \/ SqrtScanStep
  \/ SqrtScanExit
  \/ SqrtLoopStep
  \/ SqrtReturn

\* a call, once entered, keeps running: nothing else runs on the core and
\* the function waits for nothing
SpecSteps == Init /\ [][NextSteps]_vars /\ WF_vars(SqrtStep)

\* the unit conversions on their own, each called with two arguments:
\* 0 .. MaxConvIn, and the arguments around the largest ones whose result
\* still fits 32 bits (16383 mV, 1335499 uA), and around 2^31 and 2^32 - 1
ConvInputs ==
  (0 .. MaxConvIn) \cup
  {310, 311, 3300, 3505, 8191, 8192, 16382, 16383, 16384, 16385, 32768,
   667731, 667732, 1335498, 1335499, 1335500, 1335501, MaxInt, MinInt, -1}

ConvVoltage(a, b) ==
  /\ conv.f = "none"
  /\ conv' = [f |-> "voltage_mv_to_logic", a |-> a, b |-> b,
              fa |-> voltage_mv_to_logic(a), fb |-> voltage_mv_to_logic(b)]
  /\ UNCHANGED <<prog, signed_fields, halted, obs, hist, sq, step>>

ConvCurrent(a, b) ==
  /\ conv.f = "none"
  /\ conv' = [f |-> "current_ua_to_logic", a |-> a, b |-> b,
              fa |-> current_ua_to_logic(a), fb |-> current_ua_to_logic(b)]
  /\ UNCHANGED <<prog, signed_fields, halted, obs, hist, sq, step>>

NextConv ==
  \/ \E a \in ConvInputs, b \in ConvInputs : ConvVoltage(a, b)
  \/ \E a \in ConvInputs, b \in ConvInputs : ConvCurrent(a, b)

SpecConv == Init /\ [][NextConv]_vars

----------------------------------------------------------------------------
(* Properties *)

\* settings (as given, in physical units) that section 4.3 of the spec allows
ValidSettings(a) ==
  /\ a.capacitance_uF > a.kOutputCap_uF /\ a.kOutputCap_uF > 0
  /\ a.upper_threshold_voltage > a.lower_threshold_voltage
  /\ 1 <= a.kMinCapVoltage /\ a.kMinCapVoltage <= a.kInitCapVoltage
  /\ a.kInitCapVoltage <= a.kMaxCapVoltage
  /\ a.kDiscretize >= 1

Updated == obs.op = "update"

InClampRange(w) ==
  ULe(settings.kMinCapVoltage, w) /\ ULe(w, settings.kMaxCapVoltage)

\* C1: after every completed update, the Off->On update with its charge
\* redistribution included, kMinCapVoltage <= cap_voltage <= kMaxCapVoltage
\* (logic units).
C1_ClampInvariant ==
  (Updated /\ ValidSettings(obs.arg)) => InClampRange(cap_voltage)

\* C2: is_outputting changes, and the callback is called, only in an update
\* in which discretize_cntr wraps to 0; two changes are at least kDiscretize
\* calls apart.
C2_Debounce ==
  Updated =>
    /\ ULt(Add32(obs.pre_cntr, 1), settings.kDiscretize)
         => (is_outputting = obs.pre_out /\ obs.cb = <<>>)
    /\ is_outputting # obs.pre_out
         => (discretize_cntr = 0 /\ obs.pre_since + 1 >= settings.kDiscretize)

\* C2 witness: inside a debounce window the clamped voltage is over the upper
\* threshold and the state stays Off.
C2_Witness ==
  /\ Updated /\ discretize_cntr # 0 /\ ~obs.pre_out /\ ~is_outputting
  /\ ULt(settings.upper_threshold_voltage, obs.v)

\* C3: an update calls the callback at most once; exactly once, with the new
\* is_outputting, when is_outputting changes; not at all when it does not
\* change, in particular with the clamped voltage inside the band.
C3_CallbackAccounting ==
  Updated =>
    /\ Len(obs.cb) <= 1
    /\ (Len(obs.cb) = 1) <=> (is_outputting # obs.pre_out)
    /\ Len(obs.cb) = 1 => obs.cb[1].arg = is_outputting
    /\ (/\ ULe(settings.lower_threshold_voltage, obs.v)
        /\ ULe(obs.v, settings.upper_threshold_voltage)) => obs.cb = <<>>

\* C3 witness: an update that goes from On to Off and calls callback(FALSE).
C3_Witness ==
  Updated /\ obs.pre_out /\ ~is_outputting /\ Len(obs.cb) = 1

\* the counter's step: one more, and 0 when that reaches kDiscretize
CounterStep ==
  Updated =>
    discretize_cntr = (IF Add32(obs.pre_cntr, 1) = settings.kDiscretize
                         THEN 0 ELSE Add32(obs.pre_cntr, 1))

\* C4 as stated: for every kDiscretize, 0 <= discretize_cntr < kDiscretize
\* after virtcap_init and after every update, the counter growing by one per
\* update and reset to 0 when it reaches kDiscretize.
C4_CounterAnyDiscretize ==
  callback = "set" =>
    (ULt(discretize_cntr, settings.kDiscretize) /\ CounterStep)

\* C4 amended: the same for every kDiscretize >= 1.
C4_CounterInvariant ==
  (callback = "set" /\ settings.kDiscretize # 0) =>
    (ULt(discretize_cntr, settings.kDiscretize) /\ CounterStep)

\* C4 witness: the update in which the counter reaches kDiscretize = 3.
C4_Witness ==
  /\ Updated /\ settings.kDiscretize = 3
  /\ obs.pre_cntr = 2 /\ discretize_cntr = 0

\* C5: in the On state, with the voltage not yet under the lower threshold,
\* an update whose output_current exceeds its input_current does not raise
\* cap_voltage, and calls the callback only to report callback(FALSE)
\* (stated for the build with signed settings fields and a voltage that
\* starts inside the clamp range).
C5_DischargeLowersVoltage ==
  (/\ Updated /\ ValidSettings(obs.arg) /\ signed_fields
   /\ obs.pre_out /\ InClampRange(obs.pre_cap)
   /\ ULe(settings.lower_threshold_voltage, obs.pre_cap)
   /\ obs.output_current > obs.input_current)
    => /\ ULe(cap_voltage, obs.pre_cap)
       /\ \A i \in DOMAIN obs.cb : ~obs.cb[i].arg

\* C6: in scenario A callback(FALSE) is never called and callback(TRUE) at
\* most once, in an update whose clamped voltage is over the upper threshold
\* and which commits the redistributed voltage; every other update leaves
\* cap_voltage where it was or higher.
C6_ScenarioA ==
  Updated =>
    /\ hist.cbFalse = 0 /\ hist.cbTrue <= 1
    /\ obs.cb = <<>> => ULe(obs.pre_cap, cap_voltage)
    /\ obs.cb # <<>> => (/\ ULt(settings.upper_threshold_voltage, obs.v)
                         /\ cap_voltage = Redistribute(obs.v))

\* floor(num * 2^k / den) for 0 <= num < den < 2^30, without overflow
RECURSIVE ScaledQuotient(_, _, _, _)
ScaledQuotient(rem, den, k, q) ==
  IF k = 0 THEN q
  ELSE IF 2 * rem >= den THEN ScaledQuotient(2 * rem - den, den, k - 1, 2 * q + 1)
                         ELSE ScaledQuotient(2 * rem, den, k - 1, 2 * q)

\* the integer nearest to the square root of q, for 1 <= q <= 2^20
NearestRoot(q) == CHOOSE r \in 1 .. 1024 : r * r - r < q /\ q <= r * r + r

\* C7: for capacitance_uF > kOutputCap_uF > 0, outputcap_scale_factor is the
\* rounded square root of floor((capacitance_uF - kOutputCap_uF) * 2^20 /
\* capacitance_uF), and 0 < outputcap_scale_factor <= 1024.
C7_ScaleFactor ==
  (/\ callback = "set"
   /\ obs.arg.capacitance_uF > obs.arg.kOutputCap_uF
   /\ obs.arg.kOutputCap_uF > 0)
    => /\ outputcap_scale_factor =
            NearestRoot(ScaledQuotient(
              obs.arg.capacitance_uF - obs.arg.kOutputCap_uF,
              obs.arg.capacitance_uF, 20, 0))
       /\ 0 < outputcap_scale_factor /\ outputcap_scale_factor <= 1024

\* C8: right after virtcap_init, from any state, cap_voltage is the converted
\* kInitCapVoltage, is_outputting and is_enabled are false, discretize_cntr
\* is 0, kScaleInput is 102911, and the callback was not called.
C8_InitPostcondition ==
  obs.op = "init" =>
    /\ cap_voltage = voltage_mv_to_logic(obs.arg.kInitCapVoltage)
    /\ ~is_outputting /\ ~is_enabled /\ discretize_cntr = 0
    /\ kScaleInput = 102911
    /\ obs.cb = <<>>

\* C8 witness: virtcap_init called again in the On state.
C8_Witness == obs.op = "init" /\ obs.pre_out /\ hist.ninits = 2

\* C9: SquareRootRounded(0) = 0; for n >= 1 the result r has
\* r*r - r < n <= r*r + r; and 2, 3, 4, 6, 7, 8, 9 give 1, 2, 2, 2, 3, 3, 3.
C9_SqrtNearest ==
  sq.done =>
    /\ sq.n = 0 => sq.r = 0
    /\ sq.n # 0 =>
         /\ ULe(sq.r, 65536)
         /\ ULt(Mul32(sq.r, sq.r - 1), sq.n)
         /\ sq.r = 65536 \/ ULe(sq.n, Mul32(sq.r, sq.r + 1))
    /\ \A p \in {<<2, 1>>, <<3, 2>>, <<4, 2>>, <<6, 2>>, <<7, 3>>, <<8, 3>>,
                 <<9, 3>>} : sq.n = p[1] => sq.r = p[2]

\* C9 witness: the documented SquareRootRounded(7) = 3.
C9_Witness == sq.done /\ sq.n = 7 /\ sq.r = 3

\* r*r <= n + r and (r-1)*(r-1) < n over the integers, n the unsigned value
SqrtSpecBounds(n, r) ==
  /\ ULe(r, 65536)
  /\ r = 0 \/ ULe(Mul32(r, r - 1), n)
  /\ IF r = 0 THEN ULt(1, n) ELSE ULt(Mul32(r - 1, r - 1), n)

\* C10 as stated: for every n, n = 0 included, r*r <= n + r and
\* (r-1)*(r-1) < n.
C10_SqrtSpecAll == sq.done => SqrtSpecBounds(sq.n, sq.r)

\* C10 amended: for every n >= 1, r*r <= n + r and (r-1)*(r-1) < n.
C10_SqrtSpecPositive == (sq.done /\ sq.n # 0) => SqrtSpecBounds(sq.n, sq.r)

\* C10 witness: the largest input, 2^32 - 1, with the result 65536.
C10_Witness == sq.done /\ sq.n = -1 /\ sq.r = 65536

\* the arguments of a conversion whose 32-bit result does not wrap:
\* voltage * 32 * 2^13 <= 2^32 - 1, current * 3216 <= 2^32 - 1
ConvDomain(f, x) ==
  IF f = "voltage_mv_to_logic" THEN ULe(x, UDiv32(-1, 32 * 8192))
                               ELSE ULe(x, UDiv32(-1, 3216))

\* C11: over the arguments whose 32-bit result does not wrap, both unit
\* conversions are strictly increasing: a < b gives f(a) < f(b); and where
\* the product fits the integers of the model, voltage_mv_to_logic(v) is
\* v * 32 * 2^13 and current_ua_to_logic(c) is c * 3216 / 1000 truncated.
C11_ConversionsIncreasing ==
  (conv.f # "none" /\ ConvDomain(conv.f, conv.a) /\ ConvDomain(conv.f, conv.b))
    => /\ ULt(conv.a, conv.b) => ULt(conv.fa, conv.fb)
       /\ (conv.f = "voltage_mv_to_logic" /\ 0 <= conv.a /\ conv.a < 8192)
            => conv.fa = conv.a * 32 * 8192
       /\ (conv.f = "current_ua_to_logic" /\ 0 <= conv.a /\ conv.a < 667732)
            => conv.fa = (conv.a * 3216) \div 1000

\* C11 witness: current_ua_to_logic at the two largest arguments of its
\* domain, 1335498 and 1335499 uA, where the truncation still separates them.
C11_Witness ==
  /\ conv.f = "current_ua_to_logic" /\ conv.a = 1335498 /\ conv.b = 1335499
  /\ ULt(conv.fa, conv.fb)

\* C12: in every update the voltage of line 128, before the clamp, moves with
\* the net current input_current - output_current: not up when it is
\* negative, not down when it is positive, unchanged when it is 0 (stated for
\* valid settings and the build with signed settings fields).
C12_IntegrationDirection ==
  (Updated /\ ValidSettings(obs.arg) /\ signed_fields)
    => /\ obs.input_current < obs.output_current => ULe(obs.raw, obs.pre_cap)
       /\ obs.input_current > obs.output_current => ULe(obs.pre_cap, obs.raw)
       /\ obs.input_current = obs.output_current => obs.raw = obs.pre_cap

\* the update reached the decision of lines 172-182
ReachedDecision == Updated /\ ULe(settings.kDiscretize, Add32(obs.pre_cntr, 1))

\* C13: in an update that reaches the decision, with v the clamped voltage,
\* is_outputting goes true -> false exactly when it was true and
\* v < lower_threshold_voltage, false -> true exactly when it was false and
\* v > upper_threshold_voltage, and stays otherwise (v on a threshold changes
\* nothing); one update performs at most one of the two transitions.
C13_TransitionGuards ==
  ReachedDecision =>
    /\ (obs.pre_out /\ ~is_outputting)
         <=> (obs.pre_out /\ ULt(obs.v, settings.lower_threshold_voltage))
    /\ (~obs.pre_out /\ is_outputting)
         <=> (~obs.pre_out /\ ULt(settings.upper_threshold_voltage, obs.v))
    /\ ULt(settings.lower_threshold_voltage, settings.upper_threshold_voltage)
         => Len(obs.cb) <= 1

\* C13 witness: On, the clamped voltage exactly on the lower threshold, and
\* the update that reaches the decision stays On.
C13_Witness ==
  /\ ReachedDecision /\ obs.pre_out /\ is_outputting
  /\ obs.v = settings.lower_threshold_voltage

\* current_measured and voltage_measured of two runs to compare
LoadMeasurements == {0, 20000, 30000, -5} \X {0, 102400, 204800}

\* C14: in the Off state the results of virtcap_update (cap_voltage,
\* is_outputting, discretize_cntr, the callback's call) are the same for any
\* two current_measured, voltage_measured with the same input_power and
\* efficiency (all of them equal to one result); and an update made in the Off state had output_current = 0
\* and left what the same call with current_measured = voltage_measured = 0
\* leaves.
C14_LoadIgnoredWhileOff ==
  /\ (callback = "set" /\ ~halted /\ ~is_outputting) =>
       \A pe \in {<<in[3], in[4]>> : in \in UpdateArgs} :
         \E one \in {Outcomes(<<0, 0, pe[1], pe[2]>>)} :
           \A m \in LoadMeasurements :
             Outcomes(<<m[1], m[2], pe[1], pe[2]>>) = one
  /\ (Updated /\ ~obs.pre_out /\ UShr32(obs.pre_cap, SHIFT_VOLT) # 0) =>
       /\ obs.output_current = 0
       /\ [cntr |-> discretize_cntr, out |-> is_outputting,
           cap |-> cap_voltage, cb |-> obs.cb] \in obs.quiet

\* C14 witness: an update made in the Off state with a load measured
\* (current_measured and voltage_measured not 0).
C14_Witness ==
  /\ Updated /\ ~obs.pre_out /\ UShr32(obs.pre_cap, SHIFT_VOLT) # 0
  /\ obs.in[1] # 0 /\ obs.in[2] # 0 /\ obs.output_current = 0

\* C15: an update that goes Off -> On commits (v >> 10) * outputcap_scale_factor,
\* v the clamped voltage, and that is not greater than v; every other update,
\* the On -> Off one included, commits v.
C15_Redistribution ==
  (Updated /\ ValidSettings(obs.arg)) =>
    IF ~obs.pre_out /\ is_outputting
      THEN /\ cap_voltage = Mul32(UShr32(obs.v, 10), outputcap_scale_factor)
           /\ ULe(cap_voltage, obs.v)
      ELSE cap_voltage = obs.v

\* C16: when the callback is called, is_outputting already has the value
\* passed to it and discretize_cntr is already 0, while cap_voltage still has
\* the value from before this update; the new voltage (for callback(TRUE) the
\* redistributed one) is committed after the callback returns.
C16_CallbackOrdering ==
  Updated =>
    \A i \in DOMAIN obs.cb :
      /\ obs.cb[i].is_outputting = obs.cb[i].arg
      /\ obs.cb[i].discretize_cntr = 0
      /\ obs.cb[i].cap_voltage = obs.pre_cap
      /\ cap_voltage = (IF obs.cb[i].arg THEN Redistribute(obs.v) ELSE obs.v)

\* C16 witness: callback(TRUE) sees a cap_voltage that differs from the one
\* the update commits.
C16_Witness ==
  /\ Updated /\ Len(obs.cb) = 1 /\ obs.cb[1].arg
  /\ obs.cb[1].cap_voltage = obs.pre_cap /\ obs.pre_cap # cap_voltage

\* C17: since the last virtcap_init the callback's arguments alternate
\* TRUE, FALSE, TRUE, ... starting with TRUE (in every prefix the calls with
\* TRUE are as many as those with FALSE, or one more, and a call's argument
\* is the opposite of the state before it), and is_outputting is the argument
\* of the latest call, FALSE when there was none.
C17_NotificationConsistency ==
  callback = "set" =>
    /\ hist.cbTrue - hist.cbFalse \in {0, 1}
    /\ hist.lastArg = "true" <=> hist.cbTrue = hist.cbFalse + 1
    /\ hist.lastArg = "none" <=> hist.cbTrue + hist.cbFalse = 0
    /\ is_outputting <=> hist.lastArg = "true"
    /\ Updated => \A i \in DOMAIN obs.cb : obs.cb[i].arg # obs.pre_out

\* C17 witness: the callback called with TRUE, FALSE, TRUE since virtcap_init.
C17_Witness ==
  /\ Updated /\ hist.cbTrue = 2 /\ hist.cbFalse = 1
  /\ Len(obs.cb) = 1 /\ obs.cb[1].arg /\ is_outputting

\* the settings C18 is about
NonZeroSettings(a) ==
  /\ a.capacitance_uF > a.kOutputCap_uF /\ a.kOutputCap_uF > 0
  /\ 1 <= a.kMinCapVoltage /\ a.kMinCapVoltage <= a.kInitCapVoltage
  /\ a.kInitCapVoltage <= a.kMaxCapVoltage

\* C18: with capacitance_uF > kOutputCap_uF > 0 and 1 mV <= kMinCapVoltage <=
\* kInitCapVoltage <= kMaxCapVoltage, wherever virtcap_update can start after
\* virtcap_init, the update after an Off -> On transition included, the
\* divisor cap_voltage >> 13 of lines 116 and 126 is not 0.
C18_DivisorNonZero ==
  (callback = "set" /\ ~halted /\ NonZeroSettings(obs.arg)) => Divisor # 0

\* C19: for every 32-bit input, 0 and 2^32 - 1 included, a call of
\* SquareRootRounded returns: the initial scan stops (for the input 0 with
\* one = 0), the main loop makes at most 16 passes, and the two loops make 16
\* passes together; the run returns the value of SquareRootRounded.
C19_SqrtTerminates ==
  /\ (step.pc # "idle") ~> (step.pc = "done")
  /\ [](/\ step.iters <= 16 /\ step.scans + step.iters <= 16
        /\ (step.pc = "loop" /\ step.n = 0) => (step.one = 0 /\ step.scans = 16)
        /\ step.pc = "done" =>
             /\ step.one = 0 /\ step.scans + step.iters = 16
             /\ step.res = SquareRootRounded(step.n)
             /\ step.scans = SqrtRun(step.n).scans
             /\ step.iters = SqrtRun(step.n).iters)

\* C19 witness: the run with the input 2^32 - 1 has returned after 16 passes
\* of the main loop.
C19_Witness ==
  step.pc = "done" /\ step.n = -1 /\ step.iters = 16 /\ step.scans = 0

====
